---- MODULE Spec2Model ----
(***************************************************************************)
(* Tool-call extraction, argument coercion and the dispatch loops of       *)
(* ReActAgent and ToolCallingAgent.                                        *)
(*                                                                         *)
(* A text (model response, message content) is a sequence of lexical       *)
(* tokens: the four delimiter tags, whitespace, words, and JSON literals   *)
(* in json.dumps layout.  A Python value is a record                       *)
(*   [t: type name, n: number, s: string, items: <<[k, v], ...>>]          *)
(* where a float carries its value in tenths (15 is 1.5) and s = "inf"     *)
(* marks float infinity; a dict lists its (key, value) pairs in insertion  *)
(* order and a list its elements (k unused).                               *)
(***************************************************************************)
EXTENDS Integers, Sequences, FiniteSets, TLC

VARIABLES
    max_iterations,        \* ReActAgent.max_iterations
    conversation_history,  \* agent -> self.conversation_history
    pc,                    \* position of the call in flight
    self,                  \* the agent whose run (or method) is executing
    messages,              \* run(): local messages
    iterations,            \* ReActAgent.run(): local iterations
    model_response,        \* run(): local model_response
    tool_calls,            \* run(): local tool_calls
    tool_results,          \* run(): local tool_results
    ret,                   \* text returned by the last run
    exc,                   \* exception type the last run raised, "" if none
    sent,                  \* message lists this run passed to the completion capability
    received,              \* completion texts this run received
    dispatched,            \* execute_tool calls of this run: call number, index, record, outcome
    rounds,                \* tool-dispatch rounds this run completed
    runs,                  \* runs started so far
    runs_of,               \* agent -> runs started on that agent so far
    text_in,               \* argument of a direct extract_tool_calls call
    extract_out,           \* its outcome
    call_in,               \* argument of a direct execute_tool call
    execute_out,           \* its outcome
    convert_in,            \* arguments of a direct convert_argument_types call
    convert_out,           \* its outcome
    function_in,           \* argument of a direct tool(function) call
    tool_out,              \* the Tool it returned
    tool_objects,          \* the Tool objects the agents were constructed with
    tools                  \* agent -> self.tools: name -> Tool object

vars == <<max_iterations, conversation_history, pc, self, messages, iterations,
          model_response, tool_calls, tool_results, ret, exc, sent, received,
          dispatched, rounds, runs, runs_of, text_in, extract_out, call_in,
          execute_out, convert_in, convert_out, function_in, tool_out,
          tool_objects, tools>>

----------------------------------------------------------------------------
(* Bounds of the model *)

MaxIter == 2
MaxRuns == 2
MaxPieces == 3
MaxArgs == 2

----------------------------------------------------------------------------
(* Python values *)

V(t, n, s) == [t |-> t, n |-> n, s |-> s, items |-> <<>>]
PInt(n) == V("int", n, "")
PStr(s) == V("str", 0, s)
PFloat(tenths) == V("float", tenths, "")
PInf == V("float", 0, "inf")
PBool(b) == V("bool", IF b THEN 1 ELSE 0, "")
PNone == V("NoneType", 0, "")
KV(k, v) == [k |-> k, v |-> v]
PDict(items) == [t |-> "dict", n |-> 0, s |-> "", items |-> items]
PList(elems) == [t |-> "list", n |-> 0, s |-> "",
                 items |-> [i \in 1..Len(elems) |-> KV("", elems[i])]]

Keys(d) == {d.items[i].k : i \in 1..Len(d.items)}
Get(d, k) == LET i == CHOOSE j \in 1..Len(d.items) : d.items[j].k = k IN d.items[i].v

\* dict.get(key) on a dict; None when the key is absent
DictGet(d, k) == IF k \in Keys(d) THEN Get(d, k) ELSE PNone

\* d[k] = v on an existing key keeps the key's position
SetItem(d, k, v) ==
    [d EXCEPT !.items = [i \in 1..Len(d.items) |->
        IF d.items[i].k = k THEN KV(k, v) ELSE d.items[i]]]

RECURSIVE Join(_, _)
Join(strs, sep) ==
    IF Len(strs) = 0 THEN ""
    ELSE IF Len(strs) = 1 THEN strs[1]
    ELSE strs[1] \o sep \o Join(Tail(strs), sep)

FloatStr(tenths) == ToString(tenths \div 10) \o "." \o ToString(tenths % 10)

\* json.dumps(value) with the default separators
RECURSIVE JsonDumps(_)
JsonDumps(v) ==
    CASE v.t = "int" -> ToString(v.n)
      [] v.t = "str" -> ToString(v.s)
      [] v.t = "float" -> IF v.s = "inf" THEN "Infinity" ELSE FloatStr(v.n)
      [] v.t = "bool" -> IF v.n = 1 THEN "true" ELSE "false"
      [] v.t = "NoneType" -> "null"
      [] v.t = "list" ->
            "[" \o Join([i \in 1..Len(v.items) |-> JsonDumps(v.items[i].v)], ", ") \o "]"
      [] v.t = "dict" ->
            "{" \o Join([i \in 1..Len(v.items) |->
                        ToString(v.items[i].k) \o ": " \o JsonDumps(v.items[i].v)], ", ")
                \o "}"

\* json.dumps(value, indent=2); pad is the indentation of the enclosing line
RECURSIVE JsonDumpsPad(_, _)
JsonDumpsPad(v, pad) ==
    IF v.t \notin {"list", "dict"} \/ Len(v.items) = 0 THEN JsonDumps(v)
    ELSE (IF v.t = "list" THEN "[" ELSE "{") \o "\n"
         \o Join([i \in 1..Len(v.items) |->
                  pad \o "  "
                  \o (IF v.t = "dict" THEN ToString(v.items[i].k) \o ": " ELSE "")
                  \o JsonDumpsPad(v.items[i].v, pad \o "  ")], ",\n")
         \o "\n" \o pad \o (IF v.t = "list" THEN "]" ELSE "}")

JsonDumpsIndent(v) == JsonDumpsPad(v, "")

\* str(value), as an f-string formats it
PyStr(v) ==
    CASE v.t = "int" -> ToString(v.n)
      [] v.t = "str" -> v.s
      [] v.t = "float" -> IF v.s = "inf" THEN "inf" ELSE FloatStr(v.n)
      [] v.t = "bool" -> IF v.n = 1 THEN "True" ELSE "False"
      [] v.t = "NoneType" -> "None"
      [] OTHER -> JsonDumps(v)

----------------------------------------------------------------------------
(* Python built-ins used by the coercion step *)

IntParseMax == 40

\* the outcome of an expression: exc = "" and a value, or an exception type
Ok(v) == [exc |-> "", val |-> v]
Raise(e) == [exc |-> e, val |-> PNone]

IsDecimal(s) == \E n \in 0..IntParseMax : ToString(n) = s
DecimalValue(s) == CHOOSE n \in 0..IntParseMax : ToString(n) = s
IsFloatLiteral(s) == \E n \in 0..(10 * IntParseMax + 9) : FloatStr(n) = s
FloatLiteralValue(s) == CHOOSE n \in 0..(10 * IntParseMax + 9) : FloatStr(n) = s

\* int(value)
PyInt(v) ==
    CASE v.t = "int" -> Ok(v)
      [] v.t = "bool" -> Ok(PInt(v.n))
      [] v.t = "float" -> IF v.s = "inf" THEN Raise("OverflowError")
                          ELSE Ok(PInt(v.n \div 10))
      [] v.t = "str" -> IF IsDecimal(v.s) THEN Ok(PInt(DecimalValue(v.s)))
                        ELSE Raise("ValueError")
      [] OTHER -> Raise("TypeError")

\* float(value)
PyFloat(v) ==
    CASE v.t = "float" -> Ok(v)
      [] v.t \in {"int", "bool"} -> Ok(PFloat(10 * v.n))
      [] v.t = "str" ->
            IF IsDecimal(v.s) THEN Ok(PFloat(10 * DecimalValue(v.s)))
            ELSE IF IsFloatLiteral(v.s) THEN Ok(PFloat(FloatLiteralValue(v.s)))
            ELSE IF v.s \in {"inf", "Infinity"} THEN Ok(PInf)
            ELSE Raise("ValueError")
      [] OTHER -> Raise("TypeError")

\* bool(value)
PyBool(v) ==
    CASE v.t \in {"int", "bool"} -> Ok(PBool(v.n # 0))
      [] v.t = "float" -> Ok(PBool(v.n # 0 \/ v.s = "inf"))
      [] v.t = "str" -> Ok(PBool(v.s # ""))
      [] v.t = "NoneType" -> Ok(PBool(FALSE))
      [] OTHER -> Ok(PBool(Len(v.items) > 0))

\* type_mapping: type tag -> converter ("" when the tag is not a key)
type_mapping(tag) ==
    CASE tag \in {"int", "integer"} -> "int"
      [] tag \in {"str", "string"} -> "str"
      [] tag \in {"bool", "boolean"} -> "bool"
      [] tag \in {"float", "number"} -> "float"
      [] OTHER -> ""

\* converter(value)
Convert(converter, v) ==
    CASE converter = "int" -> PyInt(v)
      [] converter = "float" -> PyFloat(v)
      [] converter = "bool" -> PyBool(v)
      [] OTHER -> Ok(PStr(PyStr(v)))

\* the type test written as type(value) is converter
IsInstance_exact(v, converter) == v.t = converter

\* isinstance(value, converter); bool is a subclass of int
IsInstance(v, converter) ==
    CASE converter = "int" -> v.t \in {"int", "bool"}
      [] OTHER -> v.t = converter

\* one pass of the for loop body on the argument at position i
ConvertOne(args, properties, i) ==
    LET arg_name == args.items[i].k
        arg_value == args.items[i].v
    IN  IF arg_name \in Keys(properties) /\ "type" \in Keys(Get(properties, arg_name))
        THEN LET expected_type == Get(Get(properties, arg_name), "type").s
                 converter == type_mapping(expected_type)
             IN  IF converter # "" /\ ~IsInstance(arg_value, converter)
                 THEN LET c == Convert(converter, arg_value)
                      IN  IF c.exc = "" THEN Ok(SetItem(args, arg_name, c.val))
                          ELSE IF c.exc \in {"ValueError", "TypeError"} THEN Ok(args)
                          ELSE [exc |-> c.exc, val |-> args]
                 ELSE Ok(args)
        ELSE Ok(args)

RECURSIVE ConvertFrom(_, _, _)
ConvertFrom(args, properties, i) ==
    IF i > Len(args.items) THEN Ok(args)
    ELSE LET step == ConvertOne(args, properties, i)
         IN  IF step.exc # "" THEN step ELSE ConvertFrom(step.val, properties, i + 1)

\* convert_argument_types building the result from the declared parameters
\* only: an argument the specification does not mention is left out
convert_argument_types_declared_only(arguments, tool_spec) ==
    IF "parameters" \notin Keys(tool_spec)
       \/ "properties" \notin Keys(Get(tool_spec, "parameters"))
    THEN Ok(arguments)
    ELSE IF arguments.t # "dict" THEN [exc |-> "AttributeError", val |-> arguments]
    ELSE LET properties == Get(Get(tool_spec, "parameters"), "properties")
             Declared(item) == item.k \in Keys(properties)
         IN  ConvertFrom(PDict(SelectSeq(arguments.items, Declared)), properties, 1)

\* convert_argument_types returning the arguments as they came
convert_argument_types_skipped(arguments, tool_spec) == Ok(arguments)

\* convert_argument_types (the same text in both agents).  arguments is the
\* object bound to tool_call["arguments"]; val is that object after the call,
\* since the loop assigns into it in place, also when the call raises.
convert_argument_types(arguments, tool_spec) ==
    IF "parameters" \notin Keys(tool_spec)
       \/ "properties" \notin Keys(Get(tool_spec, "parameters"))
    THEN Ok(arguments)
    ELSE IF arguments.t # "dict" THEN [exc |-> "AttributeError", val |-> arguments]
    ELSE ConvertFrom(arguments, Get(Get(tool_spec, "parameters"), "properties"), 1)

\* type_converters of decorators.py: type tag -> converter ("" when the
\* tag is not a key)
type_converters(tag) == IF tag \in {"int", "str", "bool", "float"} THEN tag ELSE ""

\* one pass of the for loop body of the module-level convert_argument_types
\* on the argument at position i: both subscripts raise KeyError on a
\* missing key, and the converter's exception is not caught
DecoratorsConvertOne(args, expected_params, i) ==
    LET arg_name == args.items[i].k
        arg_value == args.items[i].v
    IN  IF arg_name \notin Keys(expected_params) THEN [exc |-> "KeyError", val |-> args]
        ELSE LET target_type == DictGet(Get(expected_params, arg_name), "type")
             IN  IF target_type.t # "str" \/ type_converters(target_type.s) = ""
                 THEN [exc |-> "KeyError", val |-> args]
                 ELSE LET converter == type_converters(target_type.s)
                      IN  IF IsInstance(arg_value, converter) THEN Ok(args)
                          ELSE LET c == Convert(converter, arg_value)
                               IN  IF c.exc = "" THEN Ok(SetItem(args, arg_name, c.val))
                                   ELSE [exc |-> c.exc, val |-> args]

RECURSIVE DecoratorsConvertFrom(_, _, _)
DecoratorsConvertFrom(args, expected_params, i) ==
    IF i > Len(args.items) THEN Ok(args)
    ELSE LET step == DecoratorsConvertOne(args, expected_params, i)
         IN  IF step.exc # "" THEN step
             ELSE DecoratorsConvertFrom(step.val, expected_params, i + 1)

\* convert_argument_types of decorators.py.  arguments is the object bound
\* to tool_invocation["arguments"]; val is that object after the call
decorators_convert_argument_types(arguments, function_spec) ==
    IF "parameters" \notin Keys(function_spec)
       \/ "properties" \notin Keys(Get(function_spec, "parameters"))
    THEN [exc |-> "KeyError", val |-> arguments]
    ELSE IF arguments.t # "dict" THEN [exc |-> "AttributeError", val |-> arguments]
    ELSE DecoratorsConvertFrom(arguments,
                               Get(Get(function_spec, "parameters"), "properties"), 1)

----------------------------------------------------------------------------
(* The tool registry *)

\* the callable of src/tests/react_agent.py: its __name__, __doc__, declared
\* argument names and __annotations__ (in declaration order, the return
\* annotation last)
add_two_numbers ==
    [name |-> "add_two_numbers",
     doc |-> "Used to add two numbers together",
     args |-> <<"a", "b">>,
     annotations |-> <<KV("a", "int"), KV("b", "int"), KV("return", "int")>>]

NotReturn(a) == a.k # "return"

\* extract_function_metadata(function)
extract_function_metadata(function) ==
    LET params == SelectSeq(function.annotations, NotReturn)
        parameter_types ==
            [i \in 1..Len(params) |->
                KV(params[i].k, PDict(<<KV("type", PStr(params[i].v))>>))]
    IN  PDict(<<KV("name", PStr(function.name)),
                KV("description", PStr(function.doc)),
                KV("parameters", PDict(<<KV("properties", PDict(parameter_types))>>))>>)

\* tool(function): Tool(name, function, specification); the specification
\* is kept as the value json.loads gives back for the stored JSON text
tool(function) ==
    LET metadata == extract_function_metadata(function)
    IN  [name |-> Get(metadata, "name").s,
         function |-> function,
         specification |-> metadata]

\* the tools list both agents are constructed with
ToolList == <<tool(add_two_numbers)>>

\* __init__: self.tools = {tool.name: tool for tool in tools}
ToolNames == {ToolList[i].name : i \in 1..Len(ToolList)}
ToolNamed(name) == ToolList[CHOOSE i \in 1..Len(ToolList) : ToolList[i].name = name]

\* format_tools_for_prompt()
format_tools_for_prompt ==
    "<tools>\n"
    \o JsonDumpsIndent(PList([i \in 1..Len(ToolList) |-> ToolList[i].specification]))
    \o "\n</tools>"

----------------------------------------------------------------------------
(* Invoking a tool *)

Numeric(v) == v.t \in {"int", "bool", "float"}

\* a + b of add_two_numbers: val is the sum, or msg the TypeError's message
PyAdd(a, b) ==
    IF Numeric(a) /\ Numeric(b)
    THEN IF a.s = "inf" \/ b.s = "inf" THEN [exc |-> "", msg |-> "", val |-> PInf]
         ELSE IF a.t = "float" \/ b.t = "float"
         THEN [exc |-> "", msg |-> "",
               val |-> PFloat((IF a.t = "float" THEN a.n ELSE 10 * a.n)
                              + (IF b.t = "float" THEN b.n ELSE 10 * b.n))]
         ELSE [exc |-> "", msg |-> "", val |-> PInt(a.n + b.n)]
    ELSE IF a.t = "str" /\ b.t = "str"
    THEN [exc |-> "", msg |-> "", val |-> PStr(a.s \o b.s)]
    ELSE IF a.t = "str"
    THEN [exc |-> "TypeError", val |-> PNone,
          msg |-> "can only concatenate str (not " \o ToString(b.t) \o ") to str"]
    ELSE [exc |-> "TypeError", val |-> PNone,
          msg |-> "unsupported operand type(s) for +: '" \o a.t \o "' and '" \o b.t \o "'"]

\* the parameters the function's signature declares, in order
Params(function) == function.args

InSeq(x, seq) == \E i \in 1..Len(seq) : seq[i] = x

Quoted(s) == "'" \o s \o "'"

\* the message Python gives for the missing positional arguments
MissingMsg(fname, missing) ==
    fname \o "() missing " \o ToString(Len(missing)) \o " required positional argument"
    \o (IF Len(missing) = 1 THEN ": " \o Quoted(missing[1])
        ELSE "s: " \o Quoted(missing[1]) \o " and " \o Quoted(missing[2]))

\* Tool.execute(**arguments): binds the keyword arguments and calls the
\* function.  called is TRUE when the function body ran.
Execute(t, arguments) ==
    IF arguments.t # "dict"
    THEN [exc |-> "TypeError", val |-> PNone, called |-> FALSE,
          msg |-> "Tool.execute() argument after ** must be a mapping, not " \o arguments.t]
    ELSE IF "self" \in Keys(arguments)
    THEN [exc |-> "TypeError", val |-> PNone, called |-> FALSE,
          msg |-> "Tool.execute() got multiple values for argument 'self'"]
    ELSE LET ps == Params(t.function)
             IsExtra(item) == ~InSeq(item.k, ps)
             extra == SelectSeq(arguments.items, IsExtra)
             IsMissing(p) == p \notin Keys(arguments)
             missing == SelectSeq(ps, IsMissing)
         IN  IF Len(extra) > 0
             THEN [exc |-> "TypeError", val |-> PNone, called |-> FALSE,
                   msg |-> t.name \o "() got an unexpected keyword argument "
                           \o Quoted(extra[1].k)]
             ELSE IF Len(missing) > 0
             THEN [exc |-> "TypeError", val |-> PNone, called |-> FALSE,
                   msg |-> MissingMsg(t.name, missing)]
             ELSE LET r == PyAdd(Get(arguments, "a"), Get(arguments, "b"))
                  IN  [exc |-> r.exc, val |-> r.val, called |-> TRUE, msg |-> r.msg]

----------------------------------------------------------------------------
(* The tool dispatcher *)

Agents == {"react", "tca"}

\* the values ReActAgent is constructed with as max_iterations: negative,
\* zero and positive
IterationBounds == (-1)..MaxIter

\* the exception types the except clause around the coercion step catches:
\* "except Exception" in ReActAgent, a tuple of three in ToolCallingAgent
CoercionCaught(agent, e) ==
    IF agent = "react" THEN TRUE
    ELSE e \in {"JSONDecodeError", "AttributeError", "KeyError"}

Outcome(e, result, arguments, called) ==
    [exc |-> e, result |-> result, arguments |-> arguments, called |-> called]

\* execute_tool(tool_call).  result is the value returned; arguments is the
\* state of the object tool_call["arguments"] after the call; called lists
\* the keyword arguments of every tool function body that ran.
execute_tool(agent, tool_call) ==
    IF tool_call.t # "dict"
    THEN Outcome("AttributeError", PNone, PNone, <<>>)
    ELSE LET tool_name == DictGet(tool_call, "name")
             arguments == IF "arguments" \in Keys(tool_call)
                          THEN Get(tool_call, "arguments") ELSE PDict(<<>>)
         IN  IF tool_name.t \in {"list", "dict"}
             THEN Outcome("TypeError", PNone, arguments, <<>>)
             ELSE IF ~(tool_name.t = "str" /\ tool_name.s \in DOMAIN tools[agent])
             THEN Outcome("", PStr("Error: Tool '" \o PyStr(tool_name) \o "' not found"),
                          arguments, <<>>)
             ELSE LET t == tool_objects[tools[agent][tool_name.s]]
                      conv == convert_argument_types(arguments, t.specification)
                  IN  IF conv.exc # "" /\ ~CoercionCaught(agent, conv.exc)
                      THEN Outcome(conv.exc, PNone, conv.val, <<>>)
                      ELSE LET x == Execute(t, conv.val)
                           IN  IF x.exc # ""
                               THEN Outcome("", PStr("Error executing " \o t.name \o ": "
                                                     \o x.msg),
                                            conv.val,
                                            IF x.called THEN <<conv.val>> ELSE <<>>)
                               ELSE Outcome("", x.val, conv.val, <<conv.val>>)

----------------------------------------------------------------------------
(* The directive extractor *)

TO == "<tool_call>"
TC == "</tool_call>"
RO == "<response>"
RC == "</response>"
Whitespace == {" ", "\n"}

\* the positions of seq from i on that hold tok
From(seq, i, tok) == {j \in i..Len(seq) : seq[j] = tok}
Min(S) == CHOOSE x \in S : \A y \in S : x <= y

\* re.findall(open(.*?)close, text, re.DOTALL): the inner texts of the
\* leftmost non-overlapping matches, each running from an opener to the
\* first closer after it
RECURSIVE FindAll(_, _, _, _)
FindAll(text, i, open, close) ==
    IF From(text, i, open) = {} THEN <<>>
    ELSE LET j == Min(From(text, i, open))
         IN  IF From(text, j + 1, close) = {} THEN <<>>
             ELSE LET k == Min(From(text, j + 1, close))
                  IN  <<SubSeq(text, j + 1, k - 1)>> \o FindAll(text, k + 1, open, close)

\* str.strip()
RECURSIVE Strip(_)
Strip(text) ==
    IF Len(text) = 0 THEN text
    ELSE IF text[1] \in Whitespace THEN Strip(Tail(text))
    ELSE IF text[Len(text)] \in Whitespace THEN Strip(SubSeq(text, 1, Len(text) - 1))
    ELSE text

\* the values whose JSON text can occur as a token of a model response
PyName(s) == KV("name", PStr(s))
PyArgs(v) == KV("arguments", v)
Call(name, args) == PDict(<<PyName(name), PyArgs(PDict(args))>>)
JsonValues ==
    { Call("add_two_numbers", <<KV("a", PStr("10")), KV("b", PStr("20"))>>),
      Call("add_two_numbers", <<KV("a", PStr("7")), KV("b", PStr("35"))>>),
      Call("add_two_numbers", <<KV("a", PInt(1)), KV("b", PInt(2))>>),
      Call("add_two_numbers", <<KV("a", PStr("abc")), KV("b", PStr("20"))>>),
      Call("add_two_numbers", <<KV("a", PInf), KV("b", PInt(1))>>),
      Call("add_two_numbers", <<KV("a", PInt(1))>>),
      Call("X", <<>>),
      PDict(<<KV("name", PNone), PyArgs(PDict(<<>>))>>),
      PDict(<<KV("name", PList(<<PStr("add_two_numbers")>>)), PyArgs(PDict(<<>>))>>),
      PDict(<<PyName("add_two_numbers"), PyArgs(PInt(5))>>),
      PDict(<<PyName("add_two_numbers")>>),
      PDict(<<PyArgs(PDict(<<>>))>>),
      PList(<<PStr("name"), PStr("arguments")>>),
      PList(<<PInt(1)>>),
      PStr("name arguments"),
      PStr("x"),
      PInt(5),
      PBool(TRUE),
      PNone }

\* json.loads as the inverse of json.dumps on JsonValues; any other text
\* is not JSON here
JsonTexts == {JsonDumps(v) : v \in JsonValues}
JsonTable == [txt \in JsonTexts |-> CHOOSE v \in JsonValues : JsonDumps(v) = txt]

\* json.loads(match.strip()) on a token sequence
JsonLoads(text) ==
    IF Len(text) = 1 /\ text[1] \in JsonTexts THEN Ok(JsonTable[text[1]])
    ELSE Raise("JSONDecodeError")

\* the strings around which a substring is looked for
Affixes == {"", " ", "x", "name ", " arguments"}

\* key in value: a key test on a dict, an element test on a list, a
\* substring test on a str; any other type raises TypeError
PyIn(key, v) ==
    CASE v.t = "dict" -> [exc |-> "", val |-> key \in Keys(v)]
      [] v.t = "list" -> [exc |-> "", val |-> \E i \in 1..Len(v.items) :
                                                 v.items[i].v = PStr(key)]
      [] v.t = "str" -> [exc |-> "", val |-> \E pre \in Affixes, post \in Affixes :
                                                v.s = pre \o key \o post]
      [] OTHER -> [exc |-> "TypeError", val |-> FALSE]

\* the loop of extract_tool_calls over the matches from position i on
RECURSIVE ExtractLoop(_, _, _)
ExtractLoop(matches, i, acc) ==
    IF i > Len(matches) THEN [exc |-> "", calls |-> acc]
    ELSE LET parsed == JsonLoads(Strip(matches[i]))
         IN  IF parsed.exc # "" THEN ExtractLoop(matches, i + 1, acc)
             ELSE LET hasName == PyIn("name", parsed.val)
                      hasArgs == PyIn("arguments", parsed.val)
                  IN  IF hasName.exc # "" THEN [exc |-> hasName.exc, calls |-> <<>>]
                      ELSE IF hasName.val /\ hasArgs.val
                      THEN ExtractLoop(matches, i + 1, Append(acc, parsed.val))
                      ELSE ExtractLoop(matches, i + 1, acc)

\* extract_tool_calls(response) (the same in both agents)
extract_tool_calls(response) == ExtractLoop(FindAll(response, 1, TO, TC), 1, <<>>)

\* extract_final_response returning match.group(1) without .strip()
extract_final_response_unstripped(response) ==
    LET m == FindAll(response, 1, RO, RC)
    IN  IF Len(m) > 0 THEN [found |-> TRUE, text |-> m[1]]
        ELSE [found |-> FALSE, text |-> <<>>]

\* extract_final_response(response): found is FALSE for None
extract_final_response(response) ==
    LET m == FindAll(response, 1, RO, RC)
    IN  IF Len(m) > 0 THEN [found |-> TRUE, text |-> Strip(m[1])]
        ELSE [found |-> FALSE, text |-> <<>>]

----------------------------------------------------------------------------
(* The completion capability and the caller *)

Span(v) == <<TO, JsonDumps(v), TC>>

\* the completion texts the capability can return
Responses ==
    { <<"thought">> \o Span(Call("add_two_numbers", <<KV("a", PStr("10")), KV("b", PStr("20"))>>)),
      Span(Call("X", <<>>)),
      Span(Call("add_two_numbers", <<KV("a", PStr("abc")), KV("b", PStr("20"))>>))
        \o Span(Call("add_two_numbers", <<KV("a", PStr("7")), KV("b", PStr("35"))>>)),
      <<"thought", RO, " ", "The answer is 42.", " ", RC>>,
      <<RO, " ", RC>>,
      Span(Call("add_two_numbers", <<KV("a", PInt(1)), KV("b", PInt(2))>>))
        \o <<RO, "a", RC, RO, "b", RC>>,
      <<"hello">>,
      Span(PDict(<<PyName("add_two_numbers")>>)) \o <<TO, "{bad", TC>>,
      Span(PInt(5)) \o Span(Call("add_two_numbers", <<KV("a", PInt(1)), KV("b", PInt(2))>>)),
      Span(PList(<<PStr("name"), PStr("arguments")>>)),
      Span(PDict(<<KV("name", PList(<<PStr("add_two_numbers")>>)), PyArgs(PDict(<<>>))>>)),
      Span(Call("add_two_numbers", <<KV("a", PInf), KV("b", PInt(1))>>)),
      Span(PDict(<<PyName("add_two_numbers"), PyArgs(PInt(5))>>)),
      <<TO, " ">> \o Span(Call("add_two_numbers", <<KV("a", PInt(1)), KV("b", PInt(2))>>)) }

UserInputs == {<<"question">>}
system_prompt == "You are an AI assistant."
Sentinel == <<"Max iterations reached without a final response.">>

Msg(role, content) == [role |-> role, content |-> content]
SystemMessage == Msg("system", <<system_prompt, "\n\n", format_tools_for_prompt>>)

\* one line of the "Tool results:" block
ResultLine(res) ==
    LET result_str == IF res.result.t \in {"dict", "list"}
                      THEN JsonDumpsIndent(res.result)
                      ELSE PyStr(res.result)
    IN  "- " \o PyStr(res.tool) \o JsonDumps(res.arguments) \o ": " \o result_str \o "\n"

\* results_text assigned with "=" in the loop instead of "+=": the line of
\* the last result alone
ResultsText_last_only(results) ==
    IF Len(results) = 0 THEN <<"Tool results:\n">>
    ELSE <<ResultLine(results[Len(results)])>>

\* results_text, one token per line
ResultsText(results) ==
    <<"Tool results:\n">> \o [i \in 1..Len(results) |-> ResultLine(results[i])]

----------------------------------------------------------------------------
(* The state machine *)

\* the registries: self.tools of each agent and the Tool objects they hold
registry == <<tools, tool_objects>>

\* __init__ of both agents on the same tools list: each builds its own
\* dict, and the dicts hold the same Tool objects
Registered_at_construction ==
    /\ tool_objects = ToolList
    /\ tools = [a \in Agents |->
                  [name \in ToolNames |->
                     CHOOSE i \in 1..Len(ToolList) : ToolList[i].name = name]]

NoOutcome == Outcome("", PNone, PNone, <<>>)
NoConvert == [arguments |-> PNone, tool_spec |-> PNone]
NoTool == [name |-> "", function |-> add_two_numbers, specification |-> PNone]

Init ==
    /\ max_iterations \in IterationBounds
    /\ conversation_history = [a \in Agents |-> <<>>]
    /\ pc = "idle"
    /\ self = "react"
    /\ messages = <<>>
    /\ iterations = 0
    /\ model_response = <<>>
    /\ tool_calls = <<>>
    /\ tool_results = <<>>
    /\ ret = <<>>
    /\ exc = ""
    /\ sent = <<>>
    /\ received = <<>>
    /\ dispatched = <<>>
    /\ rounds = 0
    /\ runs = 0
    /\ runs_of = [a \in Agents |-> 0]
    /\ text_in = <<>>
    /\ extract_out = [exc |-> "", calls |-> <<>>]
    /\ call_in = PNone
    /\ execute_out = NoOutcome
    /\ convert_in = NoConvert
    /\ function_in = add_two_numbers
    /\ convert_out = Ok(PNone)
    /\ tool_out = NoTool
    /\ Registered_at_construction

direct == <<text_in, extract_out, call_in, execute_out, convert_in, convert_out,
            function_in, tool_out>>

\* run(user_input) without "iterations = 0": the counter goes on from the
\* run before
RunStart_budget_kept(agent, user_input) ==
    /\ pc \in {"idle", "done"}
    /\ runs < MaxRuns
    /\ runs' = runs + 1
    /\ runs_of' = [runs_of EXCEPT ![agent] = @ + 1]
    /\ self' = agent
    /\ conversation_history' =
         [conversation_history EXCEPT ![agent] = Append(@, Msg("user", user_input))]
    /\ messages' = <<SystemMessage>> \o conversation_history'[agent]
    /\ model_response' = <<>>
    /\ tool_calls' = <<>>
    /\ tool_results' = <<>>
    /\ ret' = <<>>
    /\ exc' = ""
    /\ sent' = <<>>
    /\ received' = <<>>
    /\ dispatched' = <<>>
    /\ rounds' = 0
    /\ pc' = "loop"
    /\ UNCHANGED <<max_iterations, iterations, direct, registry>>

\* run(user_input) up to the first completion call: the user message is
\* appended to the history and the message list is built
RunStart(agent, user_input) ==
    /\ pc \in {"idle", "done"}
    /\ runs < MaxRuns
    /\ runs' = runs + 1
    /\ runs_of' = [runs_of EXCEPT ![agent] = @ + 1]
    /\ self' = agent
    /\ conversation_history' =
         [conversation_history EXCEPT ![agent] = Append(@, Msg("user", user_input))]
    /\ messages' = <<SystemMessage>> \o conversation_history'[agent]
    /\ iterations' = 0
    /\ model_response' = <<>>
    /\ tool_calls' = <<>>
    /\ tool_results' = <<>>
    /\ ret' = <<>>
    /\ exc' = ""
    /\ sent' = <<>>
    /\ received' = <<>>
    /\ dispatched' = <<>>
    /\ rounds' = 0
    /\ pc' = "loop"
    /\ UNCHANGED <<max_iterations, direct, registry>>

\* the completion call: self.llm(model="gpt-4o", messages=messages)
Complete(response) ==
    /\ sent' = Append(sent, messages)
    /\ received' = Append(received, response)

\* ReActAgent.run: the while test holds, iterations += 1, the completion call
ReActCall ==
    /\ pc = "loop" /\ self = "react"
    /\ iterations < max_iterations
    /\ iterations' = iterations + 1
    /\ \E response \in Responses :
         /\ Complete(response)
         /\ model_response' = response
    /\ pc' = "classify"
    /\ UNCHANGED <<max_iterations, runs_of, conversation_history, self, messages, tool_calls,
                   tool_results, ret, exc, dispatched, rounds, runs, direct, registry>>

\* the sentinel return recording the sentinel as the assistant's turn
ReActExhausted_recorded ==
    /\ pc = "loop" /\ self = "react"
    /\ ~(iterations < max_iterations)
    /\ conversation_history' =
         [conversation_history EXCEPT ![self] = Append(@, Msg("assistant", Sentinel))]
    /\ ret' = Sentinel
    /\ pc' = "done"
    /\ UNCHANGED <<max_iterations, runs_of, self, messages, iterations,
                   model_response, tool_calls, tool_results, exc, sent, received,
                   dispatched, rounds, runs, direct, registry>>

\* ReActAgent.run: the while test fails, the sentinel is returned
ReActExhausted ==
    /\ pc = "loop" /\ self = "react"
    /\ ~(iterations < max_iterations)
    /\ ret' = Sentinel
    /\ pc' = "done"
    /\ UNCHANGED <<max_iterations, runs_of, conversation_history, self, messages, iterations,
                   model_response, tool_calls, tool_results, exc, sent, received,
                   dispatched, rounds, runs, direct, registry>>

\* the assistant message appended to one list that every agent holds (a
\* history list created once and bound to each instance)
Finish_shared(raw, value) ==
    /\ conversation_history' =
         [a \in Agents |-> Append(conversation_history[a], Msg("assistant", raw))]
    /\ ret' = value
    /\ pc' = "done"

\* the assistant message is appended to the history and value is returned
Finish(raw, value) ==
    /\ conversation_history' =
         [conversation_history EXCEPT ![self] = Append(@, Msg("assistant", raw))]
    /\ ret' = value
    /\ pc' = "done"

\* the final-answer return without the append to conversation_history
ReActFinal_unrecorded(final_text) ==
    /\ ret' = final_text
    /\ pc' = "done"
    /\ UNCHANGED conversation_history

\* ReActAgent.run: a final answer was found
ReActFinal(final_text) == Finish(model_response, final_text)

\* the no-tool-calls return without the append to conversation_history
ReActPlain_unrecorded ==
    /\ ret' = model_response
    /\ pc' = "done"
    /\ UNCHANGED conversation_history

\* ReActAgent.run: no tool calls were found
ReActPlain == Finish(model_response, model_response)

\* ReActAgent.run: final-answer scan, then tool-call scan
ReActClassify ==
    /\ pc = "classify" /\ self = "react"
    /\ LET final_response == extract_final_response(model_response)
           extracted == extract_tool_calls(model_response)
       IN  IF final_response.found
           THEN /\ ReActFinal(final_response.text)
                /\ UNCHANGED <<tool_calls, tool_results, exc>>
           ELSE IF extracted.exc # ""
           THEN /\ exc' = extracted.exc
                /\ pc' = "done"
                /\ UNCHANGED <<conversation_history, tool_calls, tool_results, ret>>
           ELSE IF Len(extracted.calls) = 0
           THEN /\ ReActPlain
                /\ UNCHANGED <<tool_calls, tool_results, exc>>
           ELSE /\ tool_calls' = extracted.calls
                /\ tool_results' = <<>>
                /\ pc' = "dispatch"
                /\ UNCHANGED <<conversation_history, ret, exc>>
    /\ UNCHANGED <<max_iterations, runs_of, self, messages, iterations, model_response, sent,
                   received, dispatched, rounds, runs, direct, registry>>

\* ToolCallingAgent.run: the first completion call
TCACall ==
    /\ pc = "loop" /\ self = "tca"
    /\ \E response \in Responses :
         /\ Complete(response)
         /\ model_response' = response
    /\ pc' = "classify"
    /\ UNCHANGED <<max_iterations, runs_of, conversation_history, self, messages, iterations,
                   tool_calls, tool_results, ret, exc, dispatched, rounds, runs, direct, registry>>

\* ToolCallingAgent.run: tool-call scan; without tool calls the response is final
TCAClassify ==
    /\ pc = "classify" /\ self = "tca"
    /\ LET extracted == extract_tool_calls(model_response)
       IN  IF extracted.exc # ""
           THEN /\ exc' = extracted.exc
                /\ pc' = "done"
                /\ UNCHANGED <<conversation_history, tool_calls, tool_results, ret>>
           ELSE IF Len(extracted.calls) = 0
           THEN /\ Finish(model_response, model_response)
                /\ UNCHANGED <<tool_calls, tool_results, exc>>
           ELSE /\ tool_calls' = extracted.calls
                /\ tool_results' = <<>>
                /\ pc' = "dispatch"
                /\ UNCHANGED <<conversation_history, ret, exc>>
    /\ UNCHANGED <<max_iterations, runs_of, self, messages, iterations, model_response, sent,
                   received, dispatched, rounds, runs, direct, registry>>

\* one pass of "for i, tool_call in enumerate(tool_calls)": execute_tool and
\* the append to tool_results.  The coercion assigns into the arguments
\* object of the record, so the record and the result entry share its new state.
ExecuteToolStep ==
    /\ pc = "dispatch"
    /\ Len(tool_results) < Len(tool_calls)
    /\ LET i == Len(tool_results) + 1
           tool_call == tool_calls[i]
           out == execute_tool(self, tool_call)
       IN  /\ dispatched' = Append(dispatched,
                 [call |-> Len(sent), index |-> i, tool_call |-> tool_call, out |-> out])
           /\ IF out.exc # ""
              THEN /\ exc' = out.exc
                   /\ pc' = "done"
                   /\ UNCHANGED <<tool_calls, tool_results>>
              ELSE /\ tool_calls' = [tool_calls EXCEPT
                                       ![i] = SetItem(@, "arguments", out.arguments)]
                   /\ tool_results' = Append(tool_results,
                         [tool |-> DictGet(tool_call, "name"),
                          arguments |-> out.arguments,
                          result |-> out.result])
                   /\ UNCHANGED <<exc, pc>>
    /\ UNCHANGED <<max_iterations, runs_of, conversation_history, self, messages, iterations,
                   model_response, ret, sent, received, rounds, runs, direct, registry>>

\* the round appending the results block without the assistant's response
FormatResults_results_only ==
    /\ pc = "dispatch"
    /\ Len(tool_results) = Len(tool_calls)
    /\ messages' = Append(messages, Msg("user", ResultsText(tool_results)))
    /\ rounds' = rounds + 1
    /\ pc' = IF self = "react" THEN "loop" ELSE "final"
    /\ UNCHANGED <<max_iterations, runs_of, conversation_history, self, iterations,
                   model_response, tool_calls, tool_results, ret, exc, sent, received,
                   dispatched, runs, direct, registry>>

\* the results block is formatted and, with the raw response before it,
\* appended to the message list
FormatResults ==
    /\ pc = "dispatch"
    /\ Len(tool_results) = Len(tool_calls)
    /\ messages' = messages \o <<Msg("assistant", model_response),
                                 Msg("user", ResultsText(tool_results))>>
    /\ rounds' = rounds + 1
    /\ pc' = IF self = "react" THEN "loop" ELSE "final"
    /\ UNCHANGED <<max_iterations, runs_of, conversation_history, self, iterations,
                   model_response, tool_calls, tool_results, ret, exc, sent, received,
                   dispatched, runs, direct, registry>>

\* ToolCallingAgent.run: the second completion call, returned as final
TCAFinalCall ==
    /\ pc = "final" /\ self = "tca"
    /\ \E response \in Responses :
         /\ Complete(response)
         /\ Finish(response, response)
    /\ UNCHANGED <<max_iterations, runs_of, self, messages, iterations, model_response,
                   tool_calls, tool_results, exc, dispatched, rounds, runs, direct, registry>>

\* reset_conversation() without the assignment to conversation_history
reset_conversation_kept(agent) ==
    /\ pc \in {"idle", "done"}
    /\ self' = agent
    /\ messages' = <<>>
    /\ iterations' = 0
    /\ model_response' = <<>>
    /\ tool_calls' = <<>>
    /\ tool_results' = <<>>
    /\ ret' = <<>>
    /\ exc' = ""
    /\ sent' = <<>>
    /\ received' = <<>>
    /\ dispatched' = <<>>
    /\ rounds' = 0
    /\ pc' = "idle"
    /\ UNCHANGED <<max_iterations, conversation_history, runs, runs_of, direct, registry>>

\* agent.reset_conversation(), called between runs; the locals and the
\* result of the run before it are gone
reset_conversation(agent) ==
    /\ pc \in {"idle", "done"}
    /\ conversation_history' = [conversation_history EXCEPT ![agent] = <<>>]
    /\ self' = agent
    /\ messages' = <<>>
    /\ iterations' = 0
    /\ model_response' = <<>>
    /\ tool_calls' = <<>>
    /\ tool_results' = <<>>
    /\ ret' = <<>>
    /\ exc' = ""
    /\ sent' = <<>>
    /\ received' = <<>>
    /\ dispatched' = <<>>
    /\ rounds' = 0
    /\ pc' = "idle"
    /\ UNCHANGED <<max_iterations, runs, runs_of, direct, registry>>

Next ==
    \/ \E agent \in Agents, user_input \in UserInputs : RunStart(agent, user_input)
    \/ \E agent \in Agents : reset_conversation(agent)
    \/ ReActCall
    \/ ReActExhausted
    \/ ReActClassify
    \/ TCACall
    \/ TCAClassify
    \/ ExecuteToolStep
    \/ FormatResults
    \/ TCAFinalCall

Spec == Init /\ [][Next]_vars

----------------------------------------------------------------------------
(* Runs during which reset_conversation() is called on the running agent:  *)
(* by a tool function or by the completion capability, the only code of    *)
(* the caller that executes while run() is on the stack                    *)

\* reset_conversation() emptying the list in place, and with it the copy
\* of the history the message list holds behind the system message
reset_conversation_in_run_cleared ==
    /\ pc \in {"loop", "classify", "dispatch", "final"}
    /\ conversation_history' = [conversation_history EXCEPT ![self] = <<>>]
    /\ messages' = <<SystemMessage>>
    /\ UNCHANGED <<max_iterations, pc, self, iterations, model_response, tool_calls,
                   tool_results, ret, exc, sent, received, dispatched, rounds, runs,
                   runs_of, direct, registry>>

\* self.reset_conversation() while the run of self is in flight: the
\* attribute is bound to a new empty list, the locals of run are not touched
reset_conversation_in_run ==
    /\ pc \in {"loop", "classify", "dispatch", "final"}
    /\ conversation_history' = [conversation_history EXCEPT ![self] = <<>>]
    /\ UNCHANGED <<max_iterations, pc, self, messages, iterations, model_response,
                   tool_calls, tool_results, ret, exc, sent, received, dispatched,
                   rounds, runs, runs_of, direct, registry>>

\* run(user_input) on an agent that was constructed and has not run
FirstRun(agent, user_input) ==
    /\ runs = 0
    /\ RunStart(agent, user_input)

NextReset ==
    \/ \E agent \in Agents, user_input \in UserInputs : FirstRun(agent, user_input)
    \/ ReActCall
    \/ ReActExhausted
    \/ ReActClassify
    \/ TCACall
    \/ TCAClassify
    \/ ExecuteToolStep
    \/ FormatResults
    \/ TCAFinalCall
    \/ reset_conversation_in_run

SpecReset == Init /\ [][NextReset]_vars

----------------------------------------------------------------------------
(* Direct calls of extract_tool_calls on every text of up to MaxPieces pieces *)

ExtractPayloads ==
    { Call("add_two_numbers", <<KV("a", PInt(1)), KV("b", PInt(2))>>),
      Call("X", <<>>),
      PDict(<<PyName("add_two_numbers")>>),
      PList(<<PStr("name"), PStr("arguments")>>),
      PStr("name arguments"),
      PInt(5),
      PNone }

Pieces ==
    {<<TO>>, <<TC>>, <<" ">>, <<"junk">>, <<"{bad">>}
    \cup {Span(v) : v \in ExtractPayloads}
    \cup {<<JsonDumps(v)>> : v \in ExtractPayloads}

RECURSIVE TextsUpTo(_)
TextsUpTo(n) ==
    IF n = 0 THEN {<<>>}
    ELSE LET shorter == TextsUpTo(n - 1)
         IN  shorter \cup {t \o piece : t \in shorter, piece \in Pieces}

\* an agent that was constructed and has not run
Constructed ==
    /\ max_iterations \in IterationBounds
    /\ conversation_history = [a \in Agents |-> <<>>]
    /\ pc = "idle"
    /\ messages = <<>>
    /\ iterations = 0
    /\ model_response = <<>>
    /\ tool_calls = <<>>
    /\ tool_results = <<>>
    /\ ret = <<>>
    /\ exc = ""
    /\ sent = <<>>
    /\ received = <<>>
    /\ dispatched = <<>>
    /\ rounds = 0
    /\ runs = 0
    /\ runs_of = [a \in Agents |-> 0]
    /\ extract_out = [exc |-> "", calls |-> <<>>]
    /\ execute_out = NoOutcome
    /\ convert_out = Ok(PNone)
    /\ tool_out = NoTool
    /\ Registered_at_construction

run_state == <<max_iterations, conversation_history, self, messages, iterations,
               model_response, tool_calls, tool_results, ret, exc, sent, received,
               dispatched, rounds, runs, runs_of>>

InitExtract ==
    /\ Constructed
    /\ self \in Agents
    /\ text_in \in TextsUpTo(MaxPieces)
    /\ call_in = PNone
    /\ convert_in = NoConvert
    /\ function_in = add_two_numbers

\* agent.extract_tool_calls(text_in)
DirectExtract ==
    /\ pc = "idle"
    /\ extract_out' = extract_tool_calls(text_in)
    /\ pc' = "done"
    /\ UNCHANGED <<run_state, registry, text_in, call_in, execute_out, convert_in, convert_out,
                   function_in, tool_out>>

NextExtract == DirectExtract

SpecExtract == InitExtract /\ [][NextExtract]_vars

----------------------------------------------------------------------------
(* Direct calls of execute_tool on the records an extraction can return *)

Scalars == {PInt(1), PStr("10"), PStr("abc"), PFloat(15), PInf, PBool(TRUE), PNone}

KeySeqs == {<<>>, <<"a">>, <<"b">>, <<"a", "b">>, <<"b", "a">>, <<"a", "b", "c">>,
            <<"self", "a", "b">>}

ArgumentDicts ==
    UNION { {PDict([i \in 1..Len(ks) |-> KV(ks[i], f[i])]) : f \in [1..Len(ks) -> Scalars]}
            : ks \in KeySeqs }

ArgumentValues ==
    ArgumentDicts \cup {PInt(5), PNone, PStr("ab"), PList(<<PStr("a"), PStr("b")>>)}

NameValues ==
    {PStr("add_two_numbers"), PStr("X"), PNone, PInt(5), PBool(TRUE),
     PList(<<PStr("add_two_numbers")>>), PDict(<<>>)}

\* a dict with both keys, or a list or str that passes the two "in" tests
ToolCallDomain ==
    {PDict(<<KV("name", n), KV("arguments", a)>>) : n \in NameValues, a \in ArgumentValues}
    \cup {PList(<<PStr("name"), PStr("arguments")>>), PStr("name arguments")}

InitDispatch ==
    /\ Constructed
    /\ self \in Agents
    /\ text_in = <<>>
    /\ call_in \in ToolCallDomain
    /\ convert_in = NoConvert
    /\ function_in = add_two_numbers

\* agent.execute_tool(call_in)
DirectExecute ==
    /\ pc = "idle"
    /\ execute_out' = execute_tool(self, call_in)
    /\ pc' = "done"
    /\ UNCHANGED <<run_state, registry, text_in, call_in, extract_out, convert_in, convert_out,
                   function_in, tool_out>>

NextDispatch == DirectExecute

SpecDispatch == InitDispatch /\ [][NextDispatch]_vars

----------------------------------------------------------------------------
(* Direct calls of convert_argument_types *)

TypeSpec(tag) == PDict(<<KV("type", PStr(tag))>>)

\* a specification with the given parameters.properties section
SpecOf(properties) ==
    PDict(<<KV("name", PStr("f")), KV("description", PStr("doc")),
            KV("parameters", PDict(<<KV("properties", PDict(properties))>>))>>)

\* the specifications a tool object can carry: derived by
\* extract_function_metadata, or written by hand
ToolSpecs ==
    { tool(add_two_numbers).specification,
      SpecOf(<<KV("a", TypeSpec("number")), KV("b", TypeSpec("string")),
               KV("c", TypeSpec("boolean"))>>),
      SpecOf(<<KV("a", TypeSpec("float")), KV("b", TypeSpec("bool")),
               KV("c", TypeSpec("str"))>>),
      SpecOf(<<KV("a", TypeSpec("list")), KV("b", TypeSpec("integer")),
               KV("c", PDict(<<>>))>>),
      PDict(<<KV("name", PStr("f")), KV("description", PStr("doc"))>>),
      PDict(<<KV("name", PStr("f")), KV("parameters", PDict(<<>>))>>) }

InitCoerce ==
    /\ Constructed
    /\ self \in Agents
    /\ text_in = <<>>
    /\ call_in = PNone
    /\ convert_in \in [arguments : ArgumentValues, tool_spec : ToolSpecs]
    /\ function_in = add_two_numbers

\* agent.convert_argument_types({"arguments": arguments}, tool_spec)
DirectConvert ==
    /\ pc = "idle"
    /\ convert_out' = convert_argument_types(convert_in.arguments, convert_in.tool_spec)
    /\ pc' = "done"
    /\ UNCHANGED <<run_state, registry, text_in, extract_out, call_in, execute_out, convert_in,
                   function_in, tool_out>>

NextCoerce == DirectConvert

SpecCoerce == InitCoerce /\ [][NextCoerce]_vars

----------------------------------------------------------------------------
(* Direct calls of the module-level convert_argument_types of decorators.py *)

\* decorators.convert_argument_types({"arguments": arguments}, tool_spec)
DirectDecoratorsConvert ==
    /\ pc = "idle"
    /\ convert_out' = decorators_convert_argument_types(convert_in.arguments,
                                                        convert_in.tool_spec)
    /\ pc' = "done"
    /\ UNCHANGED <<run_state, registry, text_in, extract_out, call_in, execute_out,
                   convert_in, function_in, tool_out>>

NextDecorators == DirectDecoratorsConvert

SpecDecorators == InitCoerce /\ [][NextDecorators]_vars

----------------------------------------------------------------------------
(* Direct calls of tool(function) on callables of up to MaxArgs arguments *)

ArgNames == <<"a", "b", "c", "d">>
Annotations == {"", "int", "float", "str"}

\* def f(<n arguments, each annotated or not>) [-> int]: """doc"""
Callable(n, annotated, returns) ==
    LET Annotated(i) == annotated[i] # ""
        params == SelectSeq([i \in 1..n |-> i], Annotated)
    IN  [name |-> "f",
         doc |-> "doc",
         args |-> SubSeq(ArgNames, 1, n),
         annotations |->
            [i \in 1..Len(params) |-> KV(ArgNames[params[i]], annotated[params[i]])]
            \o (IF returns = "" THEN <<>> ELSE <<KV("return", returns)>>)]

Callables ==
    {add_two_numbers}
    \cup UNION { {Callable(n, annotated, returns) :
                    annotated \in [1..n -> Annotations], returns \in {"", "int"}}
                 : n \in 0..MaxArgs }

InitRegister ==
    /\ Constructed
    /\ self \in Agents
    /\ text_in = <<>>
    /\ call_in = PNone
    /\ convert_in = NoConvert
    /\ function_in \in Callables

\* tool(function_in)
DirectRegister ==
    /\ pc = "idle"
    /\ tool_out' = tool(function_in)
    /\ pc' = "done"
    /\ UNCHANGED <<run_state, registry, text_in, extract_out, call_in, execute_out, convert_in,
                   convert_out, function_in>>

NextRegister == DirectRegister

SpecRegister == InitRegister /\ [][NextRegister]_vars

----------------------------------------------------------------------------
(* Vocabulary of the claims, stated on the text itself *)

Last(seq) == seq[Len(seq)]

\* the text holds a <response> opener with a </response> closer after it
HasResponseSpan(text) ==
    \E i, k \in 1..Len(text) : i < k /\ text[i] = RO /\ text[k] = RC

\* v is the payload of a well-formed tool call: an object with both keys
WellFormedPayload(v) == v.t = "dict" /\ {"name", "arguments"} \subseteq Keys(v)

\* tokens i..k are <tool_call>, optional whitespace, one JSON text, optional
\* whitespace, </tool_call>, and the JSON text is a well-formed payload
WellFormedAt(text, i, k) ==
    /\ i < k /\ text[i] = TO /\ text[k] = TC
    /\ \E j \in (i + 1)..(k - 1) :
         /\ text[j] \in JsonTexts
         /\ WellFormedPayload(JsonTable[text[j]])
         /\ \A w \in ((i + 1)..(k - 1)) \ {j} : text[w] \in Whitespace

PayloadAt(text, i, k) ==
    JsonTable[text[CHOOSE j \in (i + 1)..(k - 1) : text[j] \in JsonTexts]]

\* the payloads of the well-formed tool-call spans from position i on, in
\* document order
RECURSIVE WellFormedFrom(_, _)
WellFormedFrom(text, i) ==
    IF i > Len(text) THEN <<>>
    ELSE IF \E k \in 1..Len(text) : WellFormedAt(text, i, k)
    THEN LET k == CHOOSE k \in 1..Len(text) : WellFormedAt(text, i, k)
         IN  <<PayloadAt(text, i, k)>> \o WellFormedFrom(text, i + 1)
    ELSE WellFormedFrom(text, i + 1)

WellFormedSpans(text) == WellFormedFrom(text, 1)

\* the value names a tool of the registry
Registered(name) == name.t = "str" /\ name.s \in ToolNames

\* out is the inner text of the first <response> span of text, trimmed
TrimmedFirstSpan(out, text) ==
    \E i, k \in 1..Len(text) :
        /\ i < k /\ text[i] = RO /\ text[k] = RC
        /\ \A j \in 1..(i - 1) : text[j] # RO
        /\ \A j \in (i + 1)..(k - 1) : text[j] # RC
        /\ \E a \in (i + 1)..k, b \in i..(k - 1) :
             /\ out = SubSeq(text, a, b)
             /\ \A j \in (i + 1)..(a - 1) : text[j] \in Whitespace
             /\ \A j \in (b + 1)..(k - 1) : text[j] \in Whitespace
             /\ Len(out) > 0 => out[1] \notin Whitespace /\ out[Len(out)] \notin Whitespace

\* no execute_tool call was made for the completion text last received
NothingDispatchedForLast == \A n \in 1..Len(dispatched) : dispatched[n].call # Len(received)

\* the history is what the first completion call was given (without the
\* system message) followed by one assistant message holding the last text
HistoryGrewByLast ==
    conversation_history[self] = Tail(sent[1]) \o <<Msg("assistant", Last(received))>>

----------------------------------------------------------------------------
(* The claims *)

\* C1: a ReActAgent run whose every completion text has no <response> span
\* and at least one well-formed tool call never makes more than
\* max_iterations completion calls, never raises, and ends returning the
\* sentinel after exactly max_iterations completion calls and dispatch rounds.
C1_TerminatesWithSentinel ==
    (self = "react" /\ \A n \in 1..Len(received) :
         ~HasResponseSpan(received[n]) /\ WellFormedSpans(received[n]) # <<>>)
    => /\ Len(sent) <= max_iterations
       /\ exc = ""
       /\ pc = "done" => /\ ret = Sentinel
                         /\ Len(sent) = max_iterations
                         /\ rounds = max_iterations

\* C2: no run of either agent raises: every run that ends returns a text.
C2_RunNeverRaises == pc = "done" => exc = ""

\* C3: in a ReActAgent run, a completion text with a <response> span ends
\* the run: the trimmed inner text of the first span is returned, nothing is
\* dispatched for that text, and the raw text is appended to the history as
\* one assistant message.
C3_FinalAnswerEndsRun ==
    (self = "react" /\ Len(received) > 0 /\ pc # "classify"
     /\ HasResponseSpan(Last(received)))
    => /\ pc = "done" /\ exc = ""
       /\ TrimmedFirstSpan(ret, Last(received))
       /\ NothingDispatchedForLast
       /\ HistoryGrewByLast

\* a run ended on a text with a padded <response> span and a well-formed
\* tool call, on a history that already held an earlier run
C3_Witness ==
    /\ self = "react" /\ pc = "done" /\ runs = 2 /\ Len(received) = 2
    /\ Len(conversation_history["react"]) = 4
    /\ HasResponseSpan(Last(received))
    /\ ret = <<"The answer is 42.">>
    /\ \E n \in 1..Len(received) : WellFormedSpans(received[n]) # <<>>

\* C4: in a ReActAgent run, a completion text without a <response> span from
\* which the extractor returns no tool call ends the run: the raw text is
\* returned unchanged, nothing is dispatched for it, no further completion
\* call is made, and the raw text is appended to the history as one
\* assistant message.
C4_PlainTextEndsRun ==
    (self = "react" /\ Len(received) > 0 /\ pc # "classify"
     /\ ~HasResponseSpan(Last(received))
     /\ extract_tool_calls(Last(received)) = [exc |-> "", calls |-> <<>>])
    => /\ pc = "done" /\ exc = ""
       /\ ret = Last(received)
       /\ NothingDispatchedForLast
       /\ Len(sent) = Len(received)
       /\ HistoryGrewByLast

\* a run returned a text whose only <tool_call> spans were dropped as
\* malformed, after an earlier dispatch round
C4_Witness ==
    /\ self = "react" /\ pc = "done" /\ Len(received) = 2 /\ rounds = 1
    /\ \E i \in 1..Len(Last(received)) : Last(received)[i] = TO
    /\ ret = Last(received)

\* C5: extract_tool_calls returns exactly the payloads of the well-formed
\* <tool_call> spans of the text, one record per span, in document order.
C5_OneRecordPerWellFormedSpan ==
    pc = "done" => /\ extract_out.exc = ""
                   /\ extract_out.calls = WellFormedSpans(text_in)

\* C6: extract_tool_calls never raises, and every record it returns is a
\* mapping with a name field and an arguments field.
C6_MalformedSpansDropped ==
    pc = "done" => /\ extract_out.exc = ""
                   /\ \A n \in 1..Len(extract_out.calls) :
                        WellFormedPayload(extract_out.calls[n])

\* C7: for a record with both keys whose name is not a key of the registry,
\* execute_tool returns "Error: Tool '<name>' not found", raises nothing,
\* invokes no tool and leaves the arguments as they were.
C7_UnknownToolIsAnErrorString ==
    (pc = "done" /\ WellFormedPayload(call_in) /\ ~Registered(Get(call_in, "name")))
    => execute_out = Outcome("",
                             PStr("Error: Tool '" \o PyStr(Get(call_in, "name"))
                                  \o "' not found"),
                             Get(call_in, "arguments"), <<>>)

\* C8: for a record naming a registered tool, whatever its arguments,
\* execute_tool raises nothing; it returns "Error executing <name>: <message>"
\* when the invocation fails and the tool's return value when it succeeds.
C8_FailingToolIsAnErrorString ==
    (pc = "done" /\ WellFormedPayload(call_in) /\ Registered(Get(call_in, "name")))
    => LET t == ToolNamed(Get(call_in, "name").s)
           x == Execute(t, execute_out.arguments)
       IN  /\ execute_out.exc = ""
           /\ execute_out.result =
                IF x.exc # "" THEN PStr("Error executing " \o t.name \o ": " \o x.msg)
                ELSE x.val

\* the completion text last received has no <response> span and holds a
\* well-formed tool call whose name is not in the registry
LastNamesUnknownTool ==
    /\ Len(received) > 0
    /\ ~HasResponseSpan(Last(received))
    /\ \E n \in 1..Len(WellFormedSpans(Last(received))) :
         ~Registered(Get(WellFormedSpans(Last(received))[n], "name"))

\* the results block appended last reports every unknown tool of the round
ObservationReportsUnknownTools ==
    /\ Last(messages).role = "user"
    /\ \A i \in 1..Len(tool_calls) :
         ~Registered(Get(tool_calls[i], "name"))
         => Last(messages).content[i + 1] =
              "- " \o PyStr(Get(tool_calls[i], "name"))
              \o JsonDumps(Get(tool_calls[i], "arguments"))
              \o ": Error: Tool '" \o PyStr(Get(tool_calls[i], "name")) \o "' not found\n"

\* C9: a ReActAgent run does not end on a completion text (without a
\* <response> span) that names an unknown tool: the observation of that
\* round reports "Tool 'X' not found" and a further completion call follows.
C9_UnknownToolDoesNotEndRun ==
    (self = "react" /\ LastNamesUnknownTool)
    => /\ pc # "done"
       /\ (pc = "loop" => ObservationReportsUnknownTools /\ iterations < max_iterations)

\* s is the decimal string of a number
C10_IsDecimalString(s) == \E x \in 0..IntParseMax : s = ToString(x)
C10_Number(s) == CHOOSE x \in 0..IntParseMax : s = ToString(x)

\* C10: a call of add_two_numbers (parameters declared int) whose arguments
\* are decimal strings invokes the tool with the integers, returns their
\* sum, and is printed in the "Tool results:" block with the integers.
C10_DecimalStringsCoerced ==
    \A n \in 1..Len(dispatched) :
        LET d == dispatched[n]
            args == Get(d.tool_call, "arguments")
        IN  (/\ WellFormedPayload(d.tool_call)
             /\ Get(d.tool_call, "name") = PStr("add_two_numbers")
             /\ args.t = "dict" /\ Len(args.items) = 2
             /\ args.items[1].k = "a" /\ args.items[2].k = "b"
             /\ \A i \in 1..2 : args.items[i].v.t = "str"
                                /\ C10_IsDecimalString(args.items[i].v.s))
            => LET x == C10_Number(args.items[1].v.s)
                   y == C10_Number(args.items[2].v.s)
               IN  /\ d.out.exc = ""
                   /\ d.out.called = <<PDict(<<KV("a", PInt(x)), KV("b", PInt(y))>>)>>
                   /\ d.out.result = PInt(x + y)
                   /\ rounds >= d.call
                      => messages[Len(sent[1]) + 2 * d.call].content[d.index + 1] =
                           "- add_two_numbers{\"a\": " \o ToString(x) \o ", \"b\": "
                           \o ToString(y) \o "}: " \o ToString(x + y) \o "\n"

\* add_two_numbers was called with "10" and "20" and the round was formatted
C10_Witness ==
    \E n \in 1..Len(dispatched) :
        /\ dispatched[n].tool_call =
             Call("add_two_numbers", <<KV("a", PStr("10")), KV("b", PStr("20"))>>)
        /\ dispatched[n].out.result = PInt(30)
        /\ rounds >= dispatched[n].call

----------------------------------------------------------------------------
(* Vocabulary of the coercion claims *)

\* the specification has a parameters.properties section
HasProperties(tool_spec) ==
    /\ "parameters" \in Keys(tool_spec)
    /\ "properties" \in Keys(Get(tool_spec, "parameters"))

\* the primitive type the specification declares for the argument name:
\* "int", "str", "bool" or "float", or "" when it declares none it knows
DeclaredType(tool_spec, arg_name) ==
    LET properties == Get(Get(tool_spec, "parameters"), "properties")
    IN  IF ~HasProperties(tool_spec) \/ arg_name \notin Keys(properties) THEN ""
        ELSE IF "type" \notin Keys(Get(properties, arg_name)) THEN ""
        ELSE LET tag == Get(Get(properties, arg_name), "type").s
             IN  CASE tag \in {"int", "integer"} -> "int"
                   [] tag \in {"str", "string"} -> "str"
                   [] tag \in {"bool", "boolean"} -> "bool"
                   [] tag \in {"float", "number"} -> "float"
                   [] OTHER -> ""

\* the Python value is of the primitive type (a bool is an int)
HasType(v, type) == v.t = type \/ (type = "int" /\ v.t = "bool")

\* the direct call was made on a mapping, with a properties section
CoercionApplied ==
    /\ pc = "done"
    /\ convert_in.arguments.t = "dict"
    /\ HasProperties(convert_in.tool_spec)

ArgsIn == convert_in.arguments.items
ArgsOut == convert_out.val.items

\* C11: convert_argument_types raises nothing; an argument whose value its
\* declared converter rejects keeps its original value, and every other
\* argument of a declared type it does not have is converted.
C11_CoercionFailureKeepsValue ==
    CoercionApplied
    => /\ convert_out.exc = ""
       /\ Len(ArgsOut) = Len(ArgsIn)
       /\ \A i \in 1..Len(ArgsIn) :
            LET type == DeclaredType(convert_in.tool_spec, ArgsIn[i].k)
                v == ArgsIn[i].v
            IN  (type # "" /\ ~HasType(v, type))
                => ArgsOut[i].v = IF Convert(type, v).exc # "" THEN v
                                  ELSE Convert(type, v).val

\* C12: an argument whose value already has its declared primitive type
\* comes out of convert_argument_types with the same value and type, and
\* applying the coercion to its own result changes nothing.
C12_AlreadyTypedIsNoOp ==
    (pc = "done" /\ convert_in.arguments.t = "dict")
    => /\ \A i \in 1..Len(ArgsIn) :
            LET type == DeclaredType(convert_in.tool_spec, ArgsIn[i].k)
            IN  (type # "" /\ HasType(ArgsIn[i].v, type)) => ArgsOut[i] = ArgsIn[i]
       /\ convert_argument_types(convert_out.val, convert_in.tool_spec).val
            = convert_out.val

\* a call whose "a" is a bool declared int and whose "b" was converted
C12_Witness ==
    /\ pc = "done"
    /\ convert_in.tool_spec = tool(add_two_numbers).specification
    /\ convert_in.arguments = PDict(<<KV("a", PBool(TRUE)), KV("b", PStr("10"))>>)
    /\ convert_out = Ok(PDict(<<KV("a", PBool(TRUE)), KV("b", PInt(10))>>))

\* C13: convert_argument_types never adds, removes or reorders an argument
\* key; an argument whose name the specification does not declare, or whose
\* declared type tag it does not know, keeps its value; and with no
\* parameters.properties section the arguments are returned as they came.
C13_UndeclaredArgumentsPassThrough ==
    pc = "done"
    => /\ convert_in.arguments.t = "dict"
          => /\ Len(ArgsOut) = Len(ArgsIn)
             /\ \A i \in 1..Len(ArgsIn) :
                  /\ ArgsOut[i].k = ArgsIn[i].k
                  /\ DeclaredType(convert_in.tool_spec, ArgsIn[i].k) = ""
                     => ArgsOut[i].v = ArgsIn[i].v
       /\ ~HasProperties(convert_in.tool_spec)
          => convert_out = Ok(convert_in.arguments)

\* a call with an undeclared argument ("self"), an argument of an unknown
\* type tag ("a": list) and a declared argument that was converted ("b")
C13_Witness ==
    /\ pc = "done"
    /\ convert_in.tool_spec =
         SpecOf(<<KV("a", TypeSpec("list")), KV("b", TypeSpec("integer")),
                  KV("c", PDict(<<>>))>>)
    /\ convert_in.arguments =
         PDict(<<KV("self", PStr("10")), KV("a", PStr("10")), KV("b", PStr("10"))>>)
    /\ convert_out =
         Ok(PDict(<<KV("self", PStr("10")), KV("a", PStr("10")), KV("b", PInt(10))>>))

----------------------------------------------------------------------------
(* Claims on the runs *)

\* msgs is the assistant's raw text followed by a user-role "Tool results:"
\* block of n lines
IsRoundPair(msgs, raw, n) ==
    /\ Len(msgs) = 2
    /\ msgs[1] = Msg("assistant", raw)
    /\ msgs[2].role = "user"
    /\ Len(msgs[2].content) = n + 1
    /\ msgs[2].content[1] = "Tool results:\n"

\* C14: a ToolCallingAgent run never raises; it makes one completion call
\* when the first text yields no tool call and two otherwise, dispatching
\* the extracted calls once, sending the results with the second call and
\* returning the second text as it is; the returned text is appended to the
\* history as one assistant message.
C14_SingleRound ==
    (self = "tca" /\ pc = "done")
    => /\ exc = ""
       /\ LET calls == extract_tool_calls(received[1]).calls
          IN  IF calls = <<>>
              THEN Len(sent) = 1 /\ ret = received[1] /\ dispatched = <<>>
              ELSE /\ Len(sent) = 2 /\ ret = received[2]
                   /\ Len(dispatched) = Len(calls)
                   /\ \A n \in 1..Len(dispatched) :
                        dispatched[n].call = 1 /\ dispatched[n].index = n
                   /\ Len(sent[2]) = Len(sent[1]) + 2
                   /\ SubSeq(sent[2], 1, Len(sent[1])) = sent[1]
                   /\ IsRoundPair(SubSeq(sent[2], Len(sent[1]) + 1, Len(sent[2])),
                                  received[1], Len(calls))
       /\ conversation_history["tca"] = Tail(sent[1]) \o <<Msg("assistant", ret)>>

\* the ReActAgent run ended because the iteration budget ran out: every
\* completion text it received led to a dispatch round
EndedExhausted ==
    /\ self = "react" /\ pc = "done" /\ exc = ""
    /\ Len(received) = max_iterations
    /\ rounds = max_iterations

\* C15: a ReActAgent run that exhausts the iteration budget returns the
\* sentinel, and the history is then the list the run started from (the
\* earlier history and this run's user message): no assistant message and
\* no sentinel text was added.
C15_SentinelLeavesHistory ==
    EndedExhausted
    => /\ ret = Sentinel
       /\ conversation_history["react"] = SubSeq(messages, 2, Len(messages) - 2 * rounds)
       /\ Last(conversation_history["react"]).role = "user"
       /\ Last(conversation_history["react"]).content \in UserInputs
       /\ \A n \in 1..Len(conversation_history["react"]) :
            conversation_history["react"][n].content # Sentinel

\* a second run on the same agent ended on the sentinel after two rounds
C15_Witness ==
    /\ EndedExhausted
    /\ max_iterations = 2 /\ rounds = 2
    /\ runs_of["react"] = 2
    /\ Len(conversation_history["react"]) = 3
    /\ ret = Sentinel

\* the message is a user-role "Tool results:" block
IsResultsBlock(m) ==
    m.role = "user" /\ Len(m.content) > 0 /\ m.content[1] = "Tool results:\n"

\* C16: after a run that dispatched at least one tool, the "Tool results:"
\* block the run built is a message of the agent's conversation history.
C16_ResultsPersistInHistory ==
    (pc = "done" /\ exc = "" /\ rounds >= 1)
    => \E n \in 1..Len(conversation_history[self]) :
         /\ IsResultsBlock(conversation_history[self][n])
         /\ conversation_history[self][n] = messages[Len(sent[1]) + 2]

\* a step that ends with no call in flight and no result pending: a
\* reset_conversation() call on the agent self'
ResetStep == pc' = "idle"

\* C17: reset_conversation leaves the agent's history empty and changes
\* neither the iteration bound nor the other agent's history (registry and
\* system prompt are fixed); the run that follows it on that agent builds a
\* list of exactly two messages, the system message and the new user input,
\* and that list is what its first completion call receives.
C17_ResetEmptiesHistory ==
    [][ /\ ResetStep
           => /\ conversation_history'[self'] = <<>>
              /\ \A a \in Agents \ {self'} :
                   conversation_history'[a] = conversation_history[a]
              /\ max_iterations' = max_iterations
        /\ (pc = "idle" /\ pc' = "loop" /\ self' = self)
           => /\ Len(messages') = 2
              /\ messages'[1] = SystemMessage
              /\ messages'[2].role = "user" /\ messages'[2].content \in UserInputs
        /\ (Len(sent) = 0 /\ Len(sent') = 1) => sent'[1] = messages
      ]_vars

\* the second run on the agent came after a reset: its first completion
\* call received the system message and the new user input only
C17_Witness ==
    /\ self = "react" /\ runs_of["react"] = 2
    /\ Len(sent) >= 1
    /\ sent[1] = <<SystemMessage, Msg("user", <<"question">>)>>

----------------------------------------------------------------------------
(* Claims on tool registration *)

\* the parameter names of the derived specification
SpecifiedNames(t) == Keys(Get(Get(t.specification, "parameters"), "properties"))

\* C18: the parameter names of the specification tool(function) derives are
\* exactly the argument names the function declares, annotated or not, and
\* "return" is not among them.
C18_ParameterNamesAreDeclaredArguments ==
    pc = "done"
    => /\ SpecifiedNames(tool_out) = {function_in.args[i] : i \in 1..Len(function_in.args)}
       /\ "return" \notin SpecifiedNames(tool_out)

----------------------------------------------------------------------------
(* Claims on the dispatch rounds *)

\* the execute_tool calls made for the c-th completion text, in the order
\* they were made
DispatchedFor(c) == LET ForCall(d) == d.call = c IN SelectSeq(dispatched, ForCall)

\* the tool calls the run extracts from the c-th completion text: none when
\* ReActAgent finds a final answer in it, none from the second text of
\* ToolCallingAgent
ExtractedFrom(c) ==
    IF self = "react" /\ HasResponseSpan(received[c]) THEN <<>>
    ELSE IF self = "tca" /\ c > 1 THEN <<>>
    ELSE extract_tool_calls(received[c]).calls

\* the "Tool results:" block of the c-th round of the run
ResultsBlockOf(c) == messages[Len(sent[1]) + 2 * c].content

\* the line of the block for one finished execute_tool call
LineOf(d) ==
    ResultLine([tool |-> Get(d.tool_call, "name"),
                arguments |-> d.out.arguments,
                result |-> d.out.result])

\* C19: in each iteration the extracted tool calls are dispatched once each,
\* in extraction order; no dispatch raises, so an error result does not stop
\* the calls after it; all are dispatched before the next completion call
\* and before the run ends; and the "Tool results:" block has one line per
\* extracted call, in the same order.
C19_DispatchInExtractionOrder ==
    \A c \in 1..Len(received) :
        LET done == DispatchedFor(c)
            calls == ExtractedFrom(c)
        IN  /\ Len(done) <= Len(calls)
            /\ \A i \in 1..Len(done) :
                 /\ done[i].index = i
                 /\ done[i].tool_call = calls[i]
                 /\ done[i].out.exc = ""
            /\ (Len(sent) > c \/ pc = "done" \/ rounds >= c) => Len(done) = Len(calls)
            /\ (rounds >= c)
               => /\ Len(ResultsBlockOf(c)) = Len(calls) + 1
                  /\ \A i \in 1..Len(calls) : ResultsBlockOf(c)[i + 1] = LineOf(done[i])

----------------------------------------------------------------------------
(* Claims on the message lists *)

\* the history the run started with, this run's user input included
RunHistory == Tail(sent[1])

\* C20: the first completion call of a run receives the system message
\* (system prompt, blank line, tools block) followed by the history, which
\* ends with this run's user input; each later call receives the list of
\* the call before it followed by the assistant's raw text and the user-role
\* "Tool results:" block; so the k-th call receives 1 + h + 2(k-1) messages.
C20_MessageListShape ==
    Len(sent) >= 1
    => /\ sent[1][1].role = "system"
       /\ sent[1][1].content = <<system_prompt, "\n\n", format_tools_for_prompt>>
       /\ Len(RunHistory) >= 1
       /\ Last(RunHistory).role = "user"
       /\ Last(RunHistory).content \in UserInputs
       /\ \/ conversation_history[self] = RunHistory
          \/ /\ pc = "done"
             /\ conversation_history[self]
                  = RunHistory \o <<Msg("assistant", Last(received))>>
       /\ \A k \in 1..Len(sent) : Len(sent[k]) = 1 + Len(RunHistory) + 2 * (k - 1)
       /\ \A k \in 2..Len(sent) :
            /\ SubSeq(sent[k], 1, Len(sent[k - 1])) = sent[k - 1]
            /\ IsRoundPair(SubSeq(sent[k], Len(sent[k - 1]) + 1, Len(sent[k])),
                           received[k - 1], Len(ExtractedFrom(k - 1)))

\* the second completion call of the second run on an agent: four messages
\* went to the first call and six to this one
C20_Witness ==
    /\ self = "react" /\ runs_of["react"] = 2
    /\ Len(sent) = 2
    /\ Len(sent[1]) = 4 /\ Len(sent[2]) = 6
    /\ IsResultsBlock(sent[2][6])

----------------------------------------------------------------------------
(* Claims on the iteration budget *)

\* the completion calls a run may make: max_iterations, none when that is
\* zero or negative
Budget == IF max_iterations > 0 THEN max_iterations ELSE 0

\* the ReActAgent run ended on its Budget-th completion text
EndedOnLastCall ==
    /\ self = "react" /\ pc = "done"
    /\ Budget > 0 /\ Len(received) = Budget

\* C21: the iteration budget of ReActAgent is per run and inclusive: a run
\* makes at most max_iterations completion calls whatever the runs before
\* it made; a final answer or a plain text arriving on the
\* max_iterations-th call is returned; the sentinel is returned only after
\* the max_iterations-th dispatch round, and then without a further call;
\* with max_iterations <= 0 the run returns the sentinel without any call.
C21_BudgetPerRunInclusive ==
    self = "react"
    => /\ Len(sent) <= Budget
       /\ (EndedOnLastCall /\ HasResponseSpan(Last(received)))
          => exc = "" /\ TrimmedFirstSpan(ret, Last(received))
       /\ (EndedOnLastCall /\ ~HasResponseSpan(Last(received))
           /\ extract_tool_calls(Last(received)) = [exc |-> "", calls |-> <<>>])
          => exc = "" /\ ret = Last(received)
       /\ (pc = "done" /\ ret = Sentinel)
          => rounds = Budget /\ Len(sent) = Budget
       /\ (pc = "done" /\ rounds = Budget)
          => exc = "" /\ ret = Sentinel /\ Len(sent) = Budget
       /\ (pc = "done" /\ max_iterations <= 0)
          => exc = "" /\ ret = Sentinel /\ sent = <<>>

\* the second run on the agent used its whole budget of two calls and
\* returned the final answer that came with the second
C21_Witness ==
    /\ EndedOnLastCall
    /\ max_iterations = 2 /\ runs_of["react"] = 2
    /\ rounds = 1
    /\ ret = <<"The answer is 42.">>

----------------------------------------------------------------------------
(* Claims on a reset during a run *)

\* the for loop over the extracted calls, from the i-th on: the entries of
\* tool_results, or the exception an execute_tool call raised
RECURSIVE DispatchAll(_, _, _, _)
DispatchAll(agent, calls, i, results) ==
    IF i > Len(calls) THEN [exc |-> "", results |-> results]
    ELSE LET out == execute_tool(agent, calls[i])
         IN  IF out.exc # "" THEN [exc |-> out.exc, results |-> results]
             ELSE DispatchAll(agent, calls, i + 1,
                              Append(results, [tool |-> DictGet(calls[i], "name"),
                                               arguments |-> out.arguments,
                                               result |-> out.result]))

RunResult(calls, ended, value, e) ==
    [sent |-> calls, ended |-> ended, ret |-> value, exc |-> e]

\* run() as the agent executes it when nothing else touches the agent: the
\* message lists of its completion calls and its result, from the message
\* list msgs of the k-th call on and the completion texts it is given
RECURSIVE Replay(_, _, _, _, _)
Replay(agent, msgs, texts, k, calls) ==
    IF agent = "react" /\ ~(k - 1 < max_iterations)
    THEN RunResult(calls, TRUE, Sentinel, "")
    ELSE IF k > Len(texts) THEN RunResult(calls, FALSE, <<>>, "")
    ELSE LET text == texts[k]
             now == Append(calls, msgs)
             final == extract_final_response(text)
             extracted == extract_tool_calls(text)
         IN  IF agent = "tca" /\ k = 2 THEN RunResult(now, TRUE, text, "")
             ELSE IF agent = "react" /\ final.found
             THEN RunResult(now, TRUE, final.text, "")
             ELSE IF extracted.exc # "" THEN RunResult(now, TRUE, <<>>, extracted.exc)
             ELSE IF extracted.calls = <<>> THEN RunResult(now, TRUE, text, "")
             ELSE LET round == DispatchAll(agent, extracted.calls, 1, <<>>)
                  IN  IF round.exc # "" THEN RunResult(now, TRUE, <<>>, round.exc)
                      ELSE Replay(agent,
                                  msgs \o <<Msg("assistant", text),
                                            Msg("user", ResultsText(round.results))>>,
                                  texts, k + 1, now)

\* the run in flight as it goes without a reset, on the texts received so far
Undisturbed ==
    Replay(self, IF sent = <<>> THEN messages ELSE sent[1], received, 1, <<>>)

\* a reset emptied the history of the running agent after the run put its
\* user message there
ResetDuringRun ==
    /\ pc \in {"loop", "classify", "dispatch", "final", "done"}
    /\ \A n \in 1..Len(conversation_history[self]) :
         conversation_history[self][n].role # "user"

\* C22: a reset_conversation on an agent while its run is in flight does not
\* interrupt the run: the run makes the same completion calls with the same
\* message lists, and returns the same value (or raises the same error), as
\* it does on the same completion texts without the reset.
C22_ResetDoesNotInterruptRun ==
    pc \in {"loop", "classify", "dispatch", "final", "done"}
    => /\ sent = Undisturbed.sent
       /\ pc = "done" => /\ Undisturbed.ended
                         /\ ret = Undisturbed.ret
                         /\ exc = Undisturbed.exc

\* a ReActAgent run whose history was reset after its first dispatch round
\* made its second completion call with the four messages and returned
C22_Witness ==
    /\ self = "react" /\ pc = "done" /\ exc = ""
    /\ ResetDuringRun
    /\ Len(sent) = 2 /\ Len(sent[2]) = 4
    /\ ret = <<"The answer is 42.">>
    /\ conversation_history["react"] = <<Msg("assistant", Last(received))>>

----------------------------------------------------------------------------
(* Claims on the two loop variants *)

\* what a dispatch shows of itself: the record and its arguments after
\* the coercion step
Dispatch(tool_call, arguments) == [tool_call |-> tool_call, arguments |-> arguments]

\* the execute_tool calls the for loop makes from the i-th record on, up to
\* and including one that raises
RECURSIVE DispatchTrace(_, _, _)
DispatchTrace(agent, calls, i) ==
    IF i > Len(calls) THEN <<>>
    ELSE LET out == execute_tool(agent, calls[i])
         IN  <<Dispatch(calls[i], out.arguments)>>
             \o (IF out.exc # "" THEN <<>> ELSE DispatchTrace(agent, calls, i + 1))

\* the execute_tool calls run() of the agent makes for its first completion
\* text (ReActAgent with max_iterations >= 1)
FirstDispatch(agent, text) ==
    IF agent = "react" /\ extract_final_response(text).found THEN <<>>
    ELSE LET extracted == extract_tool_calls(text)
         IN  IF extracted.exc # "" THEN <<>>
             ELSE DispatchTrace(agent, extracted.calls, 1)

Other(agent) == CHOOSE a \in Agents : a # agent

\* the run is past the dispatches for its first completion text
FirstRoundOver ==
    /\ Len(received) >= 1
    /\ pc = "done" \/ rounds >= 1

\* the execute_tool calls this run made for its first completion text
FirstDispatched ==
    LET done == DispatchedFor(1)
    IN  [n \in 1..Len(done) |-> Dispatch(done[n].tool_call, done[n].out.arguments)]

\* C23: on the same first completion text ReActAgent (max_iterations >= 1)
\* and ToolCallingAgent dispatch the same tool calls, in the same order and
\* with the same coerced arguments; one dispatches none exactly when the
\* other dispatches none.
C23_VariantsDispatchAlike ==
    FirstRoundOver
    => /\ FirstDispatched = FirstDispatch(self, received[1])
       /\ FirstDispatched = FirstDispatch(Other(self), received[1])

----------------------------------------------------------------------------
(* Claims on the isolation of agent instances *)

\* C24: a run, a dispatch or a reset_conversation on one agent (self')
\* changes neither the conversation history nor the registry of another
\* agent, also when both hold the same Tool objects, and changes no
\* registry at all: every agent keeps the tool names and specifications it
\* was constructed with.
C24_AgentsIsolated ==
    [][ /\ \A a \in Agents \ {self'} :
             conversation_history'[a] = conversation_history[a]
        /\ tools' = tools
        /\ tool_objects' = tool_objects
        /\ \A a \in Agents :
             /\ DOMAIN tools'[a] = ToolNames
             /\ \A name \in ToolNames :
                  tool_objects'[tools'[a][name]].specification
                    = tool(add_two_numbers).specification
      ]_vars

\* after a run of ToolCallingAgent, a ReActAgent run on the same Tool
\* objects dispatched a tool and ended; the other history holds its two messages
C24_Witness ==
    /\ self = "react" /\ pc = "done" /\ rounds >= 1
    /\ runs_of = [a \in Agents |-> 1]
    /\ Len(conversation_history["tca"]) = 2
    /\ tools["react"] = tools["tca"]
    /\ \E n \in 1..Len(dispatched) : dispatched[n].out.called # <<>>

----------------------------------------------------------------------------
(* Claims on the shape of the history *)

\* user and assistant messages strictly alternate, from a user message to
\* an assistant message
Alternates(h) ==
    /\ Len(h) % 2 = 0
    /\ \A n \in 1..Len(h) : h[n].role = IF n % 2 = 1 THEN "user" ELSE "assistant"

\* the history is empty or starts with a user message, and every assistant
\* message directly follows a user message
AnswersFollowQuestions(h) ==
    /\ Len(h) > 0 => h[1].role = "user"
    /\ \A n \in 1..Len(h) : h[n].role \in {"user", "assistant"}
    /\ \A n \in 2..Len(h) : h[n].role = "assistant" => h[n - 1].role = "user"

\* no run is in flight, and the last run (if any) returned
BetweenRuns == pc \in {"idle", "done"} /\ exc = ""

\* the history of the ReActAgent as it was when its last run was called
HistoryBeforeRun == SubSeq(messages, 2, Len(messages) - 2 * rounds - 1)

\* the user message the last run put into the history
RunQuestion == messages[Len(messages) - 2 * rounds]

\* C25 as stated: between runs the history of a ReActAgent strictly
\* alternates user and assistant messages and ends with an assistant message.
C25_HistoryAlternates ==
    BetweenRuns => Alternates(conversation_history["react"])

\* C25, amended: between runs the history of a ReActAgent is empty or
\* starts with a user message and every assistant message directly follows
\* a user message; a run that returned a final answer or a plain text grew
\* the history by its user message and one assistant message, and a run
\* that returned the sentinel grew it by its user message only.
C25_AnswersFollowQuestions ==
    /\ BetweenRuns => AnswersFollowQuestions(conversation_history["react"])
    /\ (BetweenRuns /\ self = "react" /\ pc = "done")
       => IF Len(received) = rounds
          THEN /\ ret = Sentinel
               /\ conversation_history["react"] = Append(HistoryBeforeRun, RunQuestion)
          ELSE /\ conversation_history["react"]
                    = HistoryBeforeRun
                      \o <<RunQuestion, Msg("assistant", Last(received))>>
               /\ RunQuestion.role = "user"

\* after a run that returned a plain text, a run ended on the sentinel
\* after one dispatch round: the history ends with the second user message
C25_Witness ==
    /\ BetweenRuns /\ self = "react" /\ pc = "done"
    /\ runs_of["react"] = 2
    /\ rounds = 1 /\ ret = Sentinel
    /\ Len(conversation_history["react"]) = 3
    /\ conversation_history["react"][2] = Msg("assistant", <<"hello">>)
    /\ conversation_history["react"][3].role = "user"

----------------------------------------------------------------------------
(* Claims on what the model receives of the dispatches *)

\* the message list holds the result line of the dispatch d, in the
\* "Tool results:" block of its round
HoldsResultOf(msgs, d) ==
    /\ Len(msgs) >= Len(sent[1]) + 2 * d.call
    /\ LET block == msgs[Len(sent[1]) + 2 * d.call]
       IN  /\ IsResultsBlock(block)
           /\ Len(block.content) >= d.index + 1
           /\ block.content[d.index + 1] = LineOf(d)

\* the k-th completion call was given the result line of the dispatch d
SentWith(k, d) == k <= Len(sent) /\ HoldsResultOf(sent[k], d)

----------------------------------------------------------------------------
(* Claims on the module-level coercion function *)

\* C27: on every argument mapping and every specification the module-level
\* convert_argument_types of decorators.py raises nothing and leaves the
\* arguments as ToolCallingAgent.convert_argument_types leaves them.
C27_DecoratorsCoercionAgrees ==
    pc = "done"
    => /\ convert_out.exc = ""
       /\ convert_out
            = convert_argument_types(convert_in.arguments, convert_in.tool_spec)

====
